---- MODULE Spec2Model ----
(***************************************************************************)
(* Model of jaiherro/mc-server-updater.                                    *)
(*                                                                         *)
(* Two revisions of the updater live in the repository:                    *)
(*   - src/main.rs with src/variants/{paper,purpur}.rs : the command line  *)
(*     tool (main, download_release_wrapper,                               *)
(*     download_latest_release_wrapper, extract_local_information,         *)
(*     download_file);                                                     *)
(*   - src/modules/paper.rs with src/modules/downloader.rs : the           *)
(*     download_handler pipeline and its own get_latest_version,           *)
(*     get_build, download_file and verify_binary.                         *)
(* A run is one invocation of one of them.  Strings the code takes apart   *)
(* (the marker's currentVersion, hashes, build numbers sent as text) are   *)
(* sequences of one-character strings; the remote API and the file system  *)
(* are the environment, whose answers each step draws from small sets.     *)
(***************************************************************************)
EXTENDS Integers, Sequences, FiniteSets, TLC

VARIABLES
    impl,          \* "main" | "handler": which revision runs
    dl,            \* which download_file the run uses: "main" | "paper" | "downloader"
    args,          \* main.rs Args: [variant, release, latest]
    fs,            \* the working directory: file name -> contents or Absent
    pc,            \* position of the run
    local_information, \* main.rs:48 the VersionBuild main holds after the read
    localRead,     \* what extract_local_information returned: "none" | "Ok" | "Err" | "Panic"
    release,       \* the release (version) the pipeline works on, or None
    build,         \* the build number get_build returned, or None
    build_filename,\* the file name get_build_filename returned, or None
    build_hash,    \* the hash get_build_hash returned (already upper-cased), or None
    remote,        \* what the remote API answered in this run (history of the inputs)
    result,        \* the wrapper's / handler's Result: "none" | "Ok" | "Err" | "Panic"
    log,           \* the levels main has logged at the end of the run
    exitCode,      \* the process exit status, or None while running
    trace          \* the operations the run has performed, in order

vars == <<impl, dl, args, fs, pc, local_information, localRead, release, build,
          build_filename, build_hash, remote, result, log, exitCode, trace>>

\* Option<T>: None, or Some(v) whose value is Some(v)[1]
None == <<>>
Some(v) == <<v>>
Absent == [kind |-> "absent"]

(***************************************************************************)
(* Strings as sequences of characters                                      *)
(***************************************************************************)

Digits == <<"0", "1", "2", "3", "4", "5", "6", "7", "8", "9">>

\* The value of a decimal digit character, or -1.
DigitVal(c) ==
    IF \E i \in 1..10 : Digits[i] = c
        THEN (CHOOSE i \in 1..10 : Digits[i] = c) - 1
        ELSE -1

UpperOf == [c \in {"a", "b", "c", "d", "e", "f", "p", "u", "r", "k"} |->
              CASE c = "a" -> "A" [] c = "b" -> "B" [] c = "c" -> "C"
                [] c = "d" -> "D" [] c = "e" -> "E" [] c = "f" -> "F"
                [] c = "p" -> "P" [] c = "u" -> "U" [] c = "r" -> "R"
                [] c = "k" -> "K"]

\* char::to_uppercase on the characters the model uses
UpperChar(c) == IF c \in DOMAIN UpperOf THEN UpperOf[c] ELSE c

\* char::to_lowercase on the characters the model uses
LowerChar(c) ==
    IF \E l \in DOMAIN UpperOf : UpperOf[l] = c
        THEN CHOOSE l \in DOMAIN UpperOf : UpperOf[l] = c
        ELSE c

\* str::to_uppercase
to_uppercase(s) == [i \in 1..Len(s) |-> UpperChar(s[i])]

\* str::to_lowercase
to_lowercase(s) == [i \in 1..Len(s) |-> LowerChar(s[i])]

\* The first index >= i at which sep occurs in s, or 0.
RECURSIVE FindFrom(_, _, _)
FindFrom(s, sep, i) ==
    IF i + Len(sep) - 1 > Len(s) THEN 0
    ELSE IF SubSeq(s, i, i + Len(sep) - 1) = sep THEN i
    ELSE FindFrom(s, sep, i + 1)

\* str::split(sep).collect::<Vec<&str>>(): every piece between occurrences of
\* sep, empty pieces included; a string without sep is its own single piece.
RECURSIVE split(_, _)
split(s, sep) ==
    LET i == FindFrom(s, sep, 1) IN
    IF i = 0 THEN <<s>>
    ELSE <<SubSeq(s, 1, i - 1)>> \o split(SubSeq(s, i + Len(sep), Len(s)), sep)

\* str::replace(c, ""): every occurrence of the character removed
replace_with_empty(s, c) == SelectSeq(s, LAMBDA x : x # c)

U16Max == 65535

RECURSIVE DecimalValue(_, _)
DecimalValue(s, acc) ==
    IF s = <<>> THEN acc
    ELSE IF acc > U16Max THEN acc
    ELSE DecimalValue(Tail(s), acc * 10 + DigitVal(Head(s)))

\* str::parse::<u16>(): an optional leading '+', then one or more decimal
\* digits whose value fits 16 bits.  [tag |-> "Ok", value] or [tag |-> "Err"].
parse_u16(s) ==
    LET body == IF s # <<>> /\ Head(s) = "+" THEN Tail(s) ELSE s IN
    IF body = <<>> \/ \E i \in 1..Len(body) : DigitVal(body[i]) < 0
        THEN [tag |-> "Err"]
    ELSE IF DecimalValue(body, 0) > U16Max THEN [tag |-> "Err"]
    ELSE [tag |-> "Ok", value |-> DecimalValue(body, 0)]

(***************************************************************************)
(* Names and inputs                                                        *)
(***************************************************************************)

\* the artifact written over the marker file
binary_name_marker == "version_history.json"

\* main.rs:45 binary_name, modules/paper.rs:26 local_filename
binary_name == "server.jar"

\* main.rs:268 the marker file
version_history == "version_history.json"

FileNames == {binary_name, version_history}

\* The variant names main.rs matches on, and one it does not know.
Paper == <<"p", "a", "p", "e", "r">>
Purpur == <<"p", "u", "r", "p", "u", "r">>
Fork == <<"f", "o", "r", "k">>
Variants == {Paper, Purpur, Fork}

\* Minecraft versions
V1 == <<"1", ".", "2", "0">>
V2 == <<"1", ".", "2", "1">>
Versions == {V1, V2}

\* The pieces of the marker's currentVersion: git-<T>-<B> (MC: <V>)
Git == <<"g", "i", "t">>
Dash == <<"-">>
McSep == <<" ", "(", "M", "C", ":", " ">>
Close == <<")">>

\* Server types as the server writes them
PaperT == <<"P", "a", "p", "e", "r">>
ServerTypes == {PaperT, Purpur}

\* Build numbers as text, with the number each denotes
BuildTexts == {[text |-> <<"1", "0", "0">>, value |-> 100],
               [text |-> <<"0", "7">>, value |-> 7]}

Pattern(T, B, V) == Git \o Dash \o T \o Dash \o B \o McSep \o V \o Close

\* Every currentVersion that matches the pattern, with its three parts.
WellFormedCases ==
    {[text |-> Pattern(T, B.text, V), T |-> T, B |-> B.value, V |-> V] :
        T \in ServerTypes, B \in BuildTexts, V \in Versions}

\* currentVersion values without the " (MC: " separator
NoSeparatorTexts == {Git \o Dash \o PaperT \o Dash \o <<"1", "0", "0">>, <<>>}

\* currentVersion values with fewer than two '-' before the separator
FewDashTexts == {Git \o Dash \o PaperT \o McSep \o V1 \o Close,
                 Git \o PaperT \o McSep \o V1 \o Close}

\* currentVersion values whose build is not a 16-bit unsigned number
BadBuildTexts == {Pattern(PaperT, <<"a", "b">>, V1),
                  Pattern(PaperT, <<"6", "5", "5", "3", "6">>, V1),
                  Pattern(PaperT, <<"-", "1">>, V1),
                  Pattern(PaperT, <<>>, V1)}

\* Other texts: a build written with a sign, a server type holding a '-'
OtherTexts == {Pattern(PaperT, <<"+", "7">>, V1),
               Pattern(PaperT \o Dash \o Fork, <<"1", "0", "0">>, V1)}

CurrentVersions ==
    {c.text : c \in WellFormedCases} \cup NoSeparatorTexts \cup FewDashTexts
        \cup BadBuildTexts \cup OtherTexts

\* What version_history.json can be before a run: missing, not UTF-8, not
\* JSON, JSON without a currentVersion string, or JSON with one.
MarkerFiles ==
    {Absent, [kind |-> "unreadable"], [kind |-> "notjson"], [kind |-> "nofield"]}
        \cup {[kind |-> "json", currentVersion |-> s] : s \in CurrentVersions}

\* File contents of server.jar: an artifact, an HTTP error page, a truncated
\* artifact, nothing, or what an earlier run left.
Artifacts == {"jarA", "jarB"}
Bytes(data) == [kind |-> "bytes", data |-> data]

(***************************************************************************)
(* main.rs: extract_local_information                                      *)
(***************************************************************************)

Ok(v) == [tag |-> "Ok", value |-> v]
Err == [tag |-> "Err"]
Panic == [tag |-> "Panic"]

\* extract_local_information leaving the closing parenthesis on the release
extract_local_information_keeps_paren(files) ==
    LET f == files[version_history] IN
    IF f = Absent THEN Err
    ELSE IF f.kind # "json" THEN Err
    ELSE
        LET release_split == split(f.currentVersion, McSep) IN
        IF Len(release_split) < 2 THEN Panic
        ELSE
            LET variant_build_split == split(release_split[1], Dash) IN
            IF Len(variant_build_split) < 3 THEN Panic
            ELSE
                LET parsed == parse_u16(variant_build_split[3]) IN
                IF parsed.tag = "Err" THEN Err
                ELSE Ok([variant |-> to_lowercase(variant_build_split[2]),
                         release |-> release_split[2],
                         build |-> parsed.value])

\* main.rs:263-308.  Rust indexes release_split[1], variant_build_split[1]
\* and variant_build_split[2] from 0; an index past the end panics.
extract_local_information(files) ==
    LET f == files[version_history] IN
    IF f = Absent THEN Err
    ELSE IF f.kind = "unreadable" THEN Err
    ELSE IF f.kind # "json" THEN Err
    ELSE
        LET release_split == split(f.currentVersion, McSep) IN
        IF Len(release_split) < 2 THEN Panic
        ELSE
            LET rel == replace_with_empty(release_split[2], ")")
                variant_build_split == split(release_split[1], Dash)
            IN
            IF Len(variant_build_split) < 3 THEN Panic
            ELSE
                LET parsed == parse_u16(variant_build_split[3]) IN
                IF parsed.tag = "Err" THEN Err
                ELSE Ok([variant |-> to_lowercase(variant_build_split[2]),
                         release |-> rel,
                         build |-> parsed.value])

\* main.rs:52-56 the record main substitutes when the read fails
default_information(a) ==
    [variant |-> a.variant, release |-> <<"0", ".", "0">>, build |-> 0]

(***************************************************************************)
(* The remote API's answers                                                *)
(***************************************************************************)

\* the longest builds list the API answers with
MaxBuilds == 2

BuildNumbers == {99, 100, 101}

\* Lists of distinct build numbers, in any order, of at most MaxBuilds entries
BuildLists ==
    UNION {{l \in [1..n -> BuildNumbers] :
               \A i, j \in 1..n : i # j => l[i] # l[j]} : n \in 0..MaxBuilds}

VersionLists == {<<>>, <<V1>>, <<V1, V2>>, <<V2, V1>>}

\* A request that does not come back, or whose body is not the JSON expected
NetErr == [kind |-> "neterr"]
BadJson == [kind |-> "badjson"]
Failures == {NetErr, BadJson}

RECURSIVE MaxOf(_)
MaxOf(l) ==
    IF Len(l) = 1 THEN l[1]
    ELSE LET m == MaxOf(Tail(l)) IN IF l[1] > m THEN l[1] ELSE m

\* u16 as decimal text (the build numbers the model uses)
BuildText(n) ==
    CASE n = 99 -> <<"9", "9">>
      [] n = 100 -> <<"1", "0", "0">>
      [] n = 101 -> <<"1", "0", "1">>

\* GET /projects/paper and GET /purpur: {versions: [...]}
VersionsResponses ==
    Failures \cup {[kind |-> "ok", versions |-> vs] : vs \in VersionLists}

\* GET /projects/paper/versions/{v}: {builds: [u16]}
PaperBuildsResponses ==
    Failures \cup {[kind |-> "ok", builds |-> l] : l \in BuildLists}

\* GET /purpur/{v}: {builds: {latest, all}}, build numbers as text; the API
\* names its highest build in latest.
PurpurBuildsResponses ==
    Failures \cup
    {[kind |-> "ok",
      latest |-> BuildText(MaxOf(l)),
      all |-> [i \in 1..Len(l) |-> BuildText(l[i])]] : l \in BuildLists \ {<<>>}}

FilenameResponses == Failures \cup {[kind |-> "ok", name |-> "paper.jar"]}

\* Digests as sequences of nibbles.  Distinct contents have distinct digests.
Sha256(data) ==
    CASE data = "jarA" -> <<10, 11>>
      [] data = "jarB" -> <<10, 12>>
      [] data = "errpage" -> <<14, 4>>
      [] data = "truncated" -> <<15, 0>>
      [] data = "" -> <<14, 3>>
      [] data = "old" -> <<0, 1>>

Md5(data) ==
    CASE data = "jarA" -> <<13, 1>>
      [] data = "jarB" -> <<13, 2>>
      [] data = "errpage" -> <<4, 14>>
      [] data = "truncated" -> <<0, 15>>
      [] data = "" -> <<13, 4>>
      [] data = "old" -> <<1, 0>>

HexUpper == <<"0", "1", "2", "3", "4", "5", "6", "7", "8", "9",
              "A", "B", "C", "D", "E", "F">>

\* format!("{:X}", digest)
format_X(digest) == [i \in 1..Len(digest) |-> HexUpper[digest[i] + 1]]

\* The hashes the API publishes: of jarA in lower, upper and mixed case, and
\* of jarB.
PaperHashTexts == {<<"a", "b">>, <<"A", "B">>, <<"a", "B">>, <<"a", "c">>}
PurpurHashTexts == {<<"d", "1">>, <<"D", "1">>, <<"d", "2">>}

PaperHashResponses == Failures \cup {[kind |-> "ok", hash |-> h] : h \in PaperHashTexts}
PurpurHashResponses == Failures \cup {[kind |-> "ok", hash |-> h] : h \in PurpurHashTexts}

\* The artifact request: it does not come back, or it comes back with a
\* status and a body; fault is what then goes wrong on this side: creating
\* the file, reading the body, writing the file, or nothing.
DownloadResponses ==
    {NetErr}
    \cup {[kind |-> "http", status |-> 200, body |-> a, fault |-> f] :
             a \in Artifacts, f \in {"none", "create", "body", "write"}}
    \cup {[kind |-> "http", status |-> 404, body |-> "errpage", fault |-> "none"]}
    \cup {[kind |-> "http", status |-> 304, body |-> "", fault |-> "none"]}

(***************************************************************************)
(* variants/paper.rs, variants/purpur.rs, modules/paper.rs: metadata       *)
(***************************************************************************)

Last(l) == l[Len(l)]

\* variants/paper.rs:20-30  .versions.pop().unwrap()
variants_paper_get_latest_version(resp) ==
    IF resp.kind # "ok" THEN Err
    ELSE IF resp.versions = <<>> THEN Panic
    ELSE Ok(Last(resp.versions))

\* variants/purpur.rs:19-29  .versions.pop().unwrap()
variants_purpur_get_latest_version(resp) ==
    IF resp.kind # "ok" THEN Err
    ELSE IF resp.versions = <<>> THEN Panic
    ELSE Ok(Last(resp.versions))

\* modules/paper.rs:35-46  .versions.last().context("No versions found")?
modules_paper_get_latest_version(resp) ==
    IF resp.kind # "ok" THEN Err
    ELSE IF resp.versions = <<>> THEN Err
    ELSE Ok(Last(resp.versions))

\* variants/paper.rs:42-58  .builds.pop().unwrap()
variants_paper_get_build(resp) ==
    IF resp.kind # "ok" THEN Err
    ELSE IF resp.builds = <<>> THEN Panic
    ELSE Ok(Last(resp.builds))

\* variants/purpur.rs:41-52  .builds.latest, then parse::<u16>().unwrap()
variants_purpur_get_build(resp) ==
    IF resp.kind # "ok" THEN Err
    ELSE LET parsed == parse_u16(resp.latest) IN
         IF parsed.tag = "Err" THEN Panic ELSE Ok(parsed.value)

\* modules/paper.rs:68-80  .builds.into_iter().max().unwrap_or(0)
modules_paper_get_build(resp) ==
    IF resp.kind # "ok" THEN Err
    ELSE IF resp.builds = <<>> THEN Ok(0)
    ELSE Ok(MaxOf(resp.builds))

\* variants/paper.rs:60-77, modules/paper.rs:82-104
get_build_filename(resp) ==
    IF resp.kind # "ok" THEN Err ELSE Ok(resp.name)

\* get_build_hash passing the published hash on as it came
get_build_hash_verbatim(resp) ==
    IF resp.kind # "ok" THEN Err ELSE Ok(resp.hash)

\* variants/paper.rs:79-96, variants/purpur.rs:54-65, modules/paper.rs:106-123
\* the published hash, upper-cased
get_build_hash(resp) ==
    IF resp.kind # "ok" THEN Err ELSE Ok(to_uppercase(resp.hash))

(***************************************************************************)
(* download_file and verify_binary                                         *)
(***************************************************************************)

Done(tag, files) == [tag |-> tag, files |-> files]

\* reqwest Response::error_for_status: an error for a 4xx or a 5xx status
is_error_status(status) == status \in 400..599

\* download_file dropping the result of write_all
main_download_file_ignores_write_error(resp, files, file_name) ==
    IF resp.kind = "neterr" THEN Done("Err", files)
    ELSE IF is_error_status(resp.status) THEN Done("Err", files)
    ELSE IF resp.fault = "create" THEN Done("Err", files)
    ELSE IF resp.fault = "body"
        THEN Done("Err", [files EXCEPT ![file_name] = Bytes("")])
    ELSE IF resp.fault = "write"
        THEN Done("Ok", [files EXCEPT ![file_name] = Bytes("truncated")])
    ELSE Done("Ok", [files EXCEPT ![file_name] = Bytes(resp.body)])

\* main.rs:310-329.  send()?, error_for_status, File::create (truncating),
\* resp.bytes()?, write_all.
main_download_file(resp, files, file_name) ==
    IF resp.kind = "neterr" THEN Done("Err", files)
    ELSE IF is_error_status(resp.status) THEN Done("Err", files)
    ELSE IF resp.fault = "create" THEN Done("Err", files)
    ELSE IF resp.fault = "body"
        THEN Done("Err", [files EXCEPT ![file_name] = Bytes("")])
    ELSE IF resp.fault = "write"
        THEN Done("Err", [files EXCEPT ![file_name] = Bytes("truncated")])
    ELSE Done("Ok", [files EXCEPT ![file_name] = Bytes(resp.body)])

\* modules/paper.rs:125-133.  send(), File::create, io::copy; the status is
\* not looked at.
paper_download_file(resp, files, filename) ==
    IF resp.kind = "neterr" THEN Done("Err", files)
    ELSE IF resp.fault = "create" THEN Done("Err", files)
    ELSE IF resp.fault \in {"body", "write"}
        THEN Done("Err", [files EXCEPT ![filename] = Bytes("truncated")])
    ELSE Done("Ok", [files EXCEPT ![filename] = Bytes(resp.body)])

\* modules/downloader.rs:7-22.  The same with a progress bar around the copy.
downloader_download_file(resp, files, filename) ==
    IF resp.kind = "neterr" THEN Done("Err", files)
    ELSE IF resp.fault = "create" THEN Done("Err", files)
    ELSE IF resp.fault \in {"body", "write"}
        THEN Done("Err", [files EXCEPT ![filename] = Bytes("truncated")])
    ELSE Done("Ok", [files EXCEPT ![filename] = Bytes(resp.body)])

\* variants/paper.rs:98-120
variants_paper_verify_binary(files, name, hash) ==
    IF files[name] = Absent THEN Done("Err", files)
    ELSE LET file_hash == format_X(Sha256(files[name].data)) IN
         IF file_hash # hash
             THEN Done("Err", [files EXCEPT ![name] = Absent])
             ELSE Done("Ok", files)

\* variants/purpur.rs:67-89
variants_purpur_verify_binary(files, name, hash) ==
    IF files[name] = Absent THEN Done("Err", files)
    ELSE LET file_hash == format_X(Md5(files[name].data)) IN
         IF file_hash # hash
             THEN Done("Err", [files EXCEPT ![name] = Absent])
             ELSE Done("Ok", files)

\* modules/paper.rs:135-152
modules_paper_verify_binary(files, filename, remote_hash) ==
    IF files[filename] = Absent THEN Done("Err", files)
    ELSE LET local_hash == format_X(Sha256(files[filename].data)) IN
         IF local_hash # remote_hash
             THEN Done("Err", [files EXCEPT ![filename] = Absent])
             ELSE Done("Ok", files)

(***************************************************************************)
(* The run                                                                 *)
(***************************************************************************)

NoRemote == [versions |-> None, builds |-> None, filename |-> None,
             hash |-> None, artifact |-> None]

\* clap: release and latest conflict; variant defaults to "paper" and is
\* always present.
MainArgs ==
    {a \in [variant : Variants, release : {Some(v) : v \in Versions} \cup {None}, latest : BOOLEAN] :
        ~(a.release # None /\ a.latest)}

\* download_handler(client, version): its caller passes a version, either one
\* it was given or the one modules/paper.rs get_latest_version returned.
HandlerArgs ==
    {a \in [variant : {Paper}, release : {Some(v) : v \in Versions} \cup {None}, latest : BOOLEAN] :
        (a.release # None) # a.latest}

HandlerMarkers == {Absent, [kind |-> "json",
                            currentVersion |-> Pattern(PaperT, <<"1", "0", "0">>, V1)]}

Init ==
    /\ impl \in {"main", "handler"}
    /\ dl \in IF impl = "main" THEN {"main"} ELSE {"paper", "downloader"}
    /\ args \in IF impl = "main" THEN MainArgs ELSE HandlerArgs
    /\ \E marker \in IF impl = "main" THEN MarkerFiles ELSE HandlerMarkers,
          jar \in {Absent, Bytes("old")} :
            fs = [n \in FileNames |-> IF n = version_history THEN marker ELSE jar]
    /\ pc = IF impl = "main" THEN "start" ELSE "call"
    /\ local_information = None
    /\ localRead = "none"
    /\ release = None
    /\ build = None
    /\ build_filename = None
    /\ build_hash = None
    /\ remote = NoRemote
    /\ result = "none"
    /\ log = {}
    /\ exitCode = None
    /\ trace = <<>>

\* The backend the pipeline talks to
backend == IF impl = "main" THEN args.variant ELSE Paper

\* A step that panics ends the process with Rust's panic status.
PanicExit == 101

Panics ==
    /\ result' = "Panic"
    /\ pc' = "exit"
    /\ exitCode' = Some(PanicExit)

Fails ==
    /\ result' = "Err"
    /\ pc' = "finish"
    /\ UNCHANGED exitCode

\* main.rs:47-58: the marker is read once, before the arguments are looked at.
ReadLocal ==
    /\ pc = "start"
    /\ LET r == extract_local_information(fs) IN
        /\ localRead' = r.tag
        /\ trace' = Append(trace, "extract_local_information")
        /\ IF r.tag = "Panic"
            THEN /\ Panics
                 /\ UNCHANGED <<local_information, log>>
            ELSE /\ local_information' =
                        Some(IF r.tag = "Ok" THEN r.value
                                             ELSE default_information(args))
                 /\ log' = IF r.tag = "Ok" THEN log ELSE log \cup {"warn"}
                 /\ pc' = "dispatch"
                 /\ UNCHANGED <<result, exitCode>>
    /\ UNCHANGED <<impl, dl, args, fs, release, build, build_filename,
                   build_hash, remote>>

\* main.rs:61-92 with the first match of download_release_wrapper
\* (main.rs:104, 170) and download_latest_release_wrapper (main.rs:181, 259).
Dispatch ==
    /\ pc = "dispatch"
    /\ IF args.release # None
        THEN IF args.variant \in {Paper, Purpur}
                THEN /\ release' = args.release
                     /\ pc' = "get_build"
                     /\ UNCHANGED <<result, exitCode>>
                ELSE Fails /\ UNCHANGED release
        ELSE IF args.latest
            THEN IF args.variant \in {Paper, Purpur}
                    THEN /\ pc' = "get_latest_version"
                         /\ UNCHANGED <<release, result, exitCode>>
                    ELSE Fails /\ UNCHANGED release
            ELSE /\ pc' = "finish"
                 /\ UNCHANGED <<release, result, exitCode>>
    /\ UNCHANGED <<impl, dl, args, fs, local_information, localRead, build,
                   build_filename, build_hash, remote, log, trace>>

\* The caller of modules/paper.rs download_handler: it resolves the newest
\* version first, or passes the version it was given.
HandlerCall ==
    /\ pc = "call"
    /\ IF args.latest
        THEN pc' = "get_latest_version" /\ UNCHANGED release
        ELSE pc' = "get_build" /\ release' = args.release
    /\ UNCHANGED <<impl, dl, args, fs, local_information, localRead, build,
                   build_filename, build_hash, remote, result, log, exitCode,
                   trace>>

\* get_latest_version of the revision and backend that runs
get_latest_version(resp) ==
    IF impl = "handler" THEN modules_paper_get_latest_version(resp)
    ELSE IF backend = Paper THEN variants_paper_get_latest_version(resp)
    ELSE variants_purpur_get_latest_version(resp)

\* get_build of the revision and backend that runs
get_build(resp) ==
    IF impl = "handler" THEN modules_paper_get_build(resp)
    ELSE IF backend = Paper THEN variants_paper_get_build(resp)
    ELSE variants_purpur_get_build(resp)

\* download_file of the revision that runs
download_file(resp, files, name) ==
    IF dl = "main" THEN main_download_file(resp, files, name)
    ELSE IF dl = "paper" THEN paper_download_file(resp, files, name)
    ELSE downloader_download_file(resp, files, name)

\* verify_binary of the revision and backend that runs
verify_binary(files, name, hash) ==
    IF impl = "handler" THEN modules_paper_verify_binary(files, name, hash)
    ELSE IF backend = Paper THEN variants_paper_verify_binary(files, name, hash)
    ELSE variants_purpur_verify_binary(files, name, hash)

\* main.rs:184-187, 226-229; modules/paper.rs:35-46
GetLatestVersion ==
    /\ pc = "get_latest_version"
    /\ \E resp \in VersionsResponses :
        LET r == get_latest_version(resp) IN
        /\ remote' = [remote EXCEPT !.versions = Some(resp)]
        /\ CASE r.tag = "Ok" ->
                    /\ release' = Some(r.value)
                    /\ pc' = "get_build"
                    /\ UNCHANGED <<result, exitCode>>
             [] r.tag = "Err" -> Fails /\ UNCHANGED release
             [] r.tag = "Panic" -> Panics /\ UNCHANGED release
    /\ trace' = Append(trace, "get_latest_version")
    /\ UNCHANGED <<impl, dl, args, fs, local_information, localRead, build,
                   build_filename, build_hash, log>>

\* main.rs:107-110, 143-146, 190-193, 232-235; modules/paper.rs:13-14
GetBuild ==
    /\ pc = "get_build"
    /\ \E resp \in IF backend = Paper THEN PaperBuildsResponses
                                     ELSE PurpurBuildsResponses :
        LET r == get_build(resp) IN
        /\ remote' = [remote EXCEPT !.builds = Some(resp)]
        /\ CASE r.tag = "Ok" ->
                    /\ build' = Some(r.value)
                    /\ pc' = IF backend = Paper THEN "get_build_filename"
                                                ELSE "get_build_hash"
                    /\ UNCHANGED <<result, exitCode>>
             [] r.tag = "Err" -> Fails /\ UNCHANGED build
             [] r.tag = "Panic" -> Panics /\ UNCHANGED build
    /\ trace' = Append(trace, "get_build")
    /\ UNCHANGED <<impl, dl, args, fs, local_information, localRead, release,
                   build_filename, build_hash, log>>

\* main.rs:113-117, 196-200; modules/paper.rs:17-19
GetBuildFilename ==
    /\ pc = "get_build_filename"
    /\ \E resp \in FilenameResponses :
        LET r == get_build_filename(resp) IN
        /\ remote' = [remote EXCEPT !.filename = Some(resp)]
        /\ IF r.tag = "Ok"
            THEN /\ build_filename' = Some(r.value)
                 /\ pc' = "get_build_hash"
                 /\ UNCHANGED <<result, exitCode>>
            ELSE Fails /\ UNCHANGED build_filename
    /\ trace' = Append(trace, "get_build_filename")
    /\ UNCHANGED <<impl, dl, args, fs, local_information, localRead, release,
                   build, build_hash, log>>

\* main.rs:120-124, 149-153, 203-207, 238-242; modules/paper.rs:22-23
GetBuildHash ==
    /\ pc = "get_build_hash"
    /\ \E resp \in IF backend = Paper THEN PaperHashResponses
                                     ELSE PurpurHashResponses :
        LET r == get_build_hash(resp) IN
        /\ remote' = [remote EXCEPT !.hash = Some(resp)]
        /\ IF r.tag = "Ok"
            THEN /\ build_hash' = Some(r.value)
                 /\ pc' = "download_file"
                 /\ UNCHANGED <<result, exitCode>>
            ELSE Fails /\ UNCHANGED build_hash
    /\ trace' = Append(trace, "get_build_hash")
    /\ UNCHANGED <<impl, dl, args, fs, local_information, localRead, release,
                   build, build_filename, log>>

\* main.rs:130-133, 159-162, 213-216, 248-251; modules/paper.rs:26-27
Download ==
    /\ pc = "download_file"
    /\ \E resp \in DownloadResponses :
        LET r == download_file(resp, fs, binary_name) IN
        /\ remote' = [remote EXCEPT !.artifact = Some(resp)]
        /\ fs' = r.files
        /\ IF r.tag = "Ok"
            THEN /\ pc' = "verify_binary"
                 /\ UNCHANGED <<result, exitCode>>
            ELSE Fails
    /\ trace' = Append(trace, "download_file")
    /\ UNCHANGED <<impl, dl, args, local_information, localRead, release,
                   build, build_filename, build_hash, log>>

\* main.rs:136-139, 165-168, 219-222, 254-257; modules/paper.rs:29-32
Verify ==
    /\ pc = "verify_binary"
    /\ LET r == verify_binary(fs, binary_name, build_hash[1]) IN
        /\ fs' = r.files
        /\ result' = r.tag
        /\ pc' = "finish"
    /\ trace' = Append(trace, "verify_binary")
    /\ UNCHANGED <<impl, dl, args, local_information, localRead, release,
                   build, build_filename, build_hash, remote, log, exitCode>>

\* main.rs:65-68, 74-78, 82-88, 93: main logs the wrapper's result and
\* returns, which ends the process with status 0.  download_handler returns
\* its Result to its caller (modules/paper.rs:32).
Finish ==
    /\ pc = "finish"
    /\ pc' = "exit"
    /\ IF impl = "main"
        THEN /\ log' = log \cup (CASE result = "Ok" -> {"info"}
                                   [] result = "Err" -> {"error"}
                                   [] OTHER -> {})
             /\ exitCode' = Some(0)
        ELSE UNCHANGED <<log, exitCode>>
    /\ UNCHANGED <<impl, dl, args, fs, local_information, localRead, release,
                   build, build_filename, build_hash, remote, result, trace>>

Next ==
    \/ ReadLocal
    \/ Dispatch
    \/ HandlerCall
    \/ GetLatestVersion
    \/ GetBuild
    \/ GetBuildFilename
    \/ GetBuildHash
    \/ Download
    \/ Verify
    \/ Finish

Spec == Init /\ [][Next]_vars

(***************************************************************************)
(* Properties                                                              *)
(***************************************************************************)

HexLower == <<"0", "1", "2", "3", "4", "5", "6", "7", "8", "9",
              "a", "b", "c", "d", "e", "f">>

\* The nibble a hexadecimal digit of either case denotes
HexValue(c) == CHOOSE n \in 0..15 : HexUpper[n + 1] = c \/ HexLower[n + 1] = c

\* A published hash names a digest, whatever the case of its letters
SameHashIgnoringCase(text, digest) ==
    /\ Len(text) = Len(digest)
    /\ \A i \in 1..Len(text) : HexValue(text[i]) = digest[i]

\* The digest the backend of this run uses: MD5 for Purpur, SHA-256 for Paper
BackendDigest(data) ==
    IF impl = "main" /\ args.variant = Purpur THEN Md5(data) ELSE Sha256(data)

\* verify_binary has run: it is the last operation of the trace
Verified == trace # <<>> /\ trace[Len(trace)] = "verify_binary"

\* what the download wrote, and the hash the API published for it
DownloadedData == remote.artifact[1].body
PublishedHash == remote.hash[1].hash

\* C1: once verify_binary has run on a downloaded file, on either backend:
\* if the file's digest equals the published hash compared without regard to
\* case, verify_binary returned Ok and the file is on disk; otherwise it
\* returned an error and the file is gone.
C1_VerifyKeepsOrRemoves ==
    Verified =>
        IF SameHashIgnoringCase(PublishedHash, BackendDigest(DownloadedData))
            THEN result = "Ok" /\ fs[binary_name] = Bytes(DownloadedData)
            ELSE result = "Err" /\ fs[binary_name] = Absent

\* C1 witness: a hash published in lower case was matched and the file kept
C1_Witness ==
    /\ Verified
    /\ PublishedHash = <<"a", "b">>
    /\ result = "Ok"
    /\ fs[binary_name] = Bytes("jarA")

\* The marker file holds this currentVersion
MarkerText(text) == fs[version_history] = [kind |-> "json", currentVersion |-> text]

\* extract_local_information has returned or panicked
LocalWasRead == localRead # "none"

\* The number a build text of the API denotes
BuildNumberOf(text) == CHOOSE n \in BuildNumbers : BuildText(n) = text

\* The builds a builds answer lists, as numbers
ListedBuilds(resp) ==
    IF "builds" \in DOMAIN resp THEN resp.builds
    ELSE [i \in 1..Len(resp.all) |-> BuildNumberOf(resp.all[i])]

BuildsAnswered == remote.builds # None /\ remote.builds[1].kind = "ok"

\* C2: in a run of the tool whose marker records the version the run works
\* on and the build that is the newest the API lists for that version, no
\* download is performed and the run ends with exit status zero.
C2_NoDownloadWhenUpToDate ==
    (/\ impl = "main"
     /\ localRead = "Ok"
     /\ BuildsAnswered
     /\ ListedBuilds(remote.builds[1]) # <<>>
     /\ release = Some(local_information[1].release)
     /\ MaxOf(ListedBuilds(remote.builds[1])) = local_information[1].build)
    => /\ \A i \in 1..Len(trace) : trace[i] # "download_file"
       /\ pc = "exit" => exitCode = Some(0)

\* C3: a run of the tool with neither --release nor --latest, for a variant
\* it knows, fetches the newest build of the locally recorded version when
\* the marker holds a valid record, and otherwise starts as a --latest run
\* does, by fetching the newest version.
C3_NoFlagsFetch ==
    (/\ impl = "main"
     /\ pc = "exit"
     /\ args.release = None
     /\ ~args.latest
     /\ args.variant \in {Paper, Purpur}
     /\ localRead \in {"Ok", "Err"})
    => /\ Len(trace) >= 2
       /\ localRead = "Ok" =>
            (trace[2] = "get_build" /\ release = Some(local_information[1].release))
       /\ localRead = "Err" => trace[2] = "get_latest_version"

\* The marker files the reader must treat as absent
MalformedMarker ==
    \/ fs[version_history] \in {Absent, [kind |-> "unreadable"],
                                [kind |-> "notjson"], [kind |-> "nofield"]}
    \/ \E t \in NoSeparatorTexts \cup FewDashTexts \cup BadBuildTexts : MarkerText(t)

\* C4: for every missing or malformed marker file, extract_local_information
\* returns the error result, main holds the default record with build 0, and
\* the run goes on to the argument dispatch.
C4_MalformedMarkerIsAbsent ==
    (impl = "main" /\ LocalWasRead /\ MalformedMarker)
    => /\ localRead = "Err"
       /\ local_information # None
       /\ local_information[1].build = 0
       /\ result # "Panic"

\* A request, the download or the verification failed in this run
PipelineFailed == result = "Err" /\ Len(trace) >= 2

\* C5: a run of the tool that ends after a failed request, download or
\* verification has logged an error and exits non-zero; a run that ends with
\* nothing to do or with the update done exits zero.
C5_ExitStatus ==
    (impl = "main" /\ pc = "exit")
    => /\ PipelineFailed => (exitCode # Some(0) /\ "error" \in log)
       /\ result \in {"Ok", "none"} => exitCode = Some(0)

\* C6 as stated: for every well-formed currentVersion git-<T>-<B> (MC: <V>)
\* the record read has server type exactly T, build B and version V.
C6_ParsesExactly ==
    \A c \in WellFormedCases :
        (LocalWasRead /\ MarkerText(c.text))
        => /\ localRead = "Ok"
           /\ local_information = Some([variant |-> c.T, release |-> c.V,
                                        build |-> c.B])

\* C6 amended: for every well-formed currentVersion git-<T>-<B> (MC: <V>)
\* the record read has server type T in lower case, build B and version V.
C6_ParsesWithLowerCaseType ==
    \A c \in WellFormedCases :
        (LocalWasRead /\ MarkerText(c.text))
        => /\ localRead = "Ok"
           /\ local_information = Some([variant |-> to_lowercase(c.T),
                                        release |-> c.V, build |-> c.B])

\* C6 witness: git-Paper-07 (MC: 1.21) was read as paper, 7, 1.21
C6_Witness ==
    /\ MarkerText(Pattern(PaperT, <<"0", "7">>, V2))
    /\ localRead = "Ok"
    /\ local_information = Some([variant |-> Paper, release |-> V2, build |-> 7])

\* C7: whenever get_build has returned a build for a non-empty builds list,
\* in whatever order the list came, the build is the highest in the list.
C7_HighestBuild ==
    (BuildsAnswered /\ ListedBuilds(remote.builds[1]) # <<>> /\ build # None)
    => build = Some(MaxOf(ListedBuilds(remote.builds[1])))

VersionsAnsweredEmpty ==
    /\ remote.versions # None
    /\ remote.versions[1].kind = "ok"
    /\ remote.versions[1].versions = <<>>

BuildsAnsweredEmpty == BuildsAnswered /\ ListedBuilds(remote.builds[1]) = <<>>

\* C8: after an empty versions list get_latest_version has returned an error
\* and there is no version; after an empty builds list get_build has returned
\* an error and there is no build; the run has not crashed.
C8_EmptyListsAreErrors ==
    /\ VersionsAnsweredEmpty => (result = "Err" /\ release = None)
    /\ BuildsAnsweredEmpty => (result = "Err" /\ build = None)

ArtifactAnswered == remote.artifact # None /\ remote.artifact[1].kind = "http"

\* C9: after an artifact request answered with a status outside 200..299,
\* download_file has returned an error, the body is not in the destination
\* file, and verify_binary is not run.
C9_ErrorStatusFailsDownload ==
    (ArtifactAnswered /\ remote.artifact[1].status \notin 200..299)
    => /\ result = "Err"
       /\ fs[binary_name] # Bytes(remote.artifact[1].body)
       /\ \A i \in 1..Len(trace) : trace[i] # "verify_binary"

\* C10: no step of any run changes version_history.json: it exists or not,
\* with the same contents, as before the step.
C10_MarkerOnlyRead == [][fs'[version_history] = fs[version_history]]_vars

\* C10 witness: a run that read the marker and wrote server.jar has ended
C10_Witness ==
    /\ pc = "exit"
    /\ localRead = "Ok"
    /\ fs[version_history] # Absent
    /\ fs[binary_name] = Bytes("jarB")

\* The place of an operation in the pipeline: reading the marker comes
\* first (Idle), then the fetches (Fetching), the download (Downloading) and
\* the verification (Verifying).
PhaseRank(op) ==
    CASE op = "extract_local_information" -> 0
      [] op = "get_latest_version" -> 1
      [] op = "get_build" -> 2
      [] op = "get_build_filename" -> 3
      [] op = "get_build_hash" -> 4
      [] op = "download_file" -> 5
      [] op = "verify_binary" -> 6

Performed(op) == \E i \in 1..Len(trace) : trace[i] = op

\* The operations performed come in pipeline order, none of them twice
TraceForward ==
    \A i, j \in 1..Len(trace) : i < j => PhaseRank(trace[i]) < PhaseRank(trace[j])

\* The download is started with a build number and a hash, both fetched
DownloadAfterFetch ==
    Performed("download_file")
    => /\ BuildsAnswered /\ build # None
       /\ remote.hash # None /\ remote.hash[1].kind = "ok" /\ build_hash # None
       /\ Performed("get_build") /\ Performed("get_build_hash")

\* The verification is started with the artifact received and written whole
VerifyAfterDownload ==
    Performed("verify_binary")
    => /\ Performed("download_file")
       /\ ArtifactAnswered
       /\ remote.artifact[1].fault = "none"

\* C11: in every run of a download pipeline the operations come in the order
\* fetch, download, verify, each at most once; the download starts only with
\* the build number and the hash fetched; the verification starts only after
\* a download that completed; and once a step has failed no further request,
\* download or verification is performed.
C11_ForwardOnly ==
    /\ [](TraceForward /\ DownloadAfterFetch /\ VerifyAfterDownload)
    /\ [][(result \in {"Err", "Panic"}) => (trace' = trace)]_vars

\* C11 witness: a --latest run went through every phase and ended Done
C11_Witness ==
    /\ pc = "exit"
    /\ result = "Ok"
    /\ trace = <<"extract_local_information", "get_latest_version", "get_build",
                 "get_build_filename", "get_build_hash", "download_file",
                 "verify_binary">>

\* The run has not got an answer to an artifact request that could be
\* written: no artifact request was made, or, in main.rs, the request did
\* not come back or came back with a status outside 200..299.
NoArtifactToWrite(r) ==
    \/ r.artifact = None
    \/ /\ dl = "main"
       /\ \/ r.artifact[1].kind = "neterr"
          \/ /\ r.artifact[1].kind = "http"
             /\ r.artifact[1].status \notin 200..299

\* C12: while a run has failed or not yet got to the download, and when the
\* artifact request of main.rs download_file fails or is answered with a
\* status outside 200..299, no step changes a server.jar that is on disk:
\* the file of before the run is there at the end, with its contents.
C12_ExistingJarKept ==
    [][(fs[binary_name] # Absent /\ NoArtifactToWrite(remote'))
         => (fs'[binary_name] = fs[binary_name])]_vars

\* A server.jar that this run created or overwrote is on disk: every file
\* of before the run holds "old".
JarWrittenByRun == fs[binary_name] # Absent /\ fs[binary_name] # Bytes("old")

\* C13: at the end of a run, a server.jar the run created or overwrote and
\* left on disk has the digest the API published for it.
C13_NoUnverifiedArtifact ==
    (pc = "exit" /\ JarWrittenByRun)
    => /\ remote.hash # None
       /\ remote.hash[1].kind = "ok"
       /\ SameHashIgnoringCase(PublishedHash, BackendDigest(fs[binary_name].data))

====
